---- MODULE Spec2Model ----
(***************************************************************************)
(* Patient encounter system: patients, doctors and appointments kept in a  *)
(* relational store, and the scheduling endpoint that admits an            *)
(* appointment only after schema validation, the doctor checks, the        *)
(* future-time check and the overlap scan; the registration of patients    *)
(* and doctors; and the listing of the appointments of a day.              *)
(*                                                                         *)
(* Time is counted in seconds.  A datetime is a record                     *)
(*   [wall |-> wall-clock seconds, aware |-> has tzinfo, off |-> offset]   *)
(* and denotes the instant wall - off when it is aware.                    *)
(***************************************************************************)
EXTENDS Integers, Sequences, FiniteSets, TLC

VARIABLES
    now,            \* the clock read by datetime.now(timezone.utc)
    enforce_fk,     \* whether the store backend enforces foreign keys
    patients,       \* table diksha-patients1, row i has id i
    doctors,        \* table diksha-doctors1, row i has id i
    appointments,   \* table diksha-appointments1, row i has id i
    last,           \* the HTTP response returned by the latest step of a handler
    calls           \* the request in flight on each worker thread

vars == <<now, enforce_fk, patients, doctors, appointments, last, calls>>

store == <<patients, doctors, appointments>>

----------------------------------------------------------------------------
(* Bounds of the model *)

MaxNow == 2
MaxPatients == 2
MaxDoctors == 2
MaxAppointments == 2

(* Program constants *)

MinDuration == 15
MaxDuration == 180
SecondsPerMinute == 60
SecondsPerDay == 86400

HTTP_200_OK == 200
HTTP_201_CREATED == 201
HTTP_400_BAD_REQUEST == 400
HTTP_404_NOT_FOUND == 404
HTTP_409_CONFLICT == 409
HTTP_422_UNPROCESSABLE == 422

ErrDuration == "Duration must be between 15 and 180 minutes"
ErrNaive == "start_datetime must be timezone-aware"
ErrFuture == "Appointment must be scheduled in the future"
ErrNoDoctor == "Doctor does not exist"
ErrInactive == "Doctor is not active"
ErrPast == "Cannot schedule appointments in the past"
ErrConflict == "Doctor has a conflicting appointment at this time"
ErrIntegrity == "IntegrityError"
ErrDupEmail == "A patient with this email already exists."
ErrDoctor404 == "Doctor not found"
ErrDate == "Invalid date format. Use YYYY-MM-DD (e.g., 2026-01-30)"

NONE == "none"

----------------------------------------------------------------------------
(* Datetimes *)

Aware(w, o) == [wall |-> w, aware |-> TRUE, off |-> o]
Naive(w) == [wall |-> w, aware |-> FALSE, off |-> 0]

\* The instant an aware datetime denotes (seconds since the epoch, UTC).
Instant(dt) == dt.wall - dt.off

\* timedelta(minutes = m) in seconds
timedelta_minutes(m) == m * SecondsPerMinute

_ensure_timezone_aware(dt) ==
    IF ~dt.aware THEN Aware(dt.wall, 0) ELSE dt

\* The DateTime column keeps the wall-clock fields of the value bound to it
\* and returns them without tzinfo.
StoredDateTime(dt) == Naive(dt.wall)

----------------------------------------------------------------------------
(* Schema AppointmentCreate: field validators, errors collected in field   *)
(* order (start_datetime is declared before duration_minutes).             *)

\* Mutation: the range with its ends excluded.
validate_duration_exclusive(v) ==
    IF ~(MinDuration < v /\ v < MaxDuration) THEN <<ErrDuration>> ELSE <<>>

validate_duration(v) ==
    IF ~(MinDuration <= v /\ v <= MaxDuration) THEN <<ErrDuration>> ELSE <<>>

validate_start_datetime(v, t) ==
    IF ~v.aware THEN <<ErrNaive>>
    ELSE IF Instant(v) <= t THEN <<ErrFuture>>
    ELSE <<>>

\* Mutation: the duration error reported ahead of the start error.
AppointmentCreateDurationFirst(data, t) ==
    validate_duration(data.duration_minutes)
        \o validate_start_datetime(data.start_datetime, t)

AppointmentCreate(data, t) ==
    validate_start_datetime(data.start_datetime, t)
        \o validate_duration(data.duration_minutes)

----------------------------------------------------------------------------
(* Service create_appointment: the reads and checks before the insert.     *)

DoctorExists(id) == id \in 1..Len(doctors)

\* Mutation: the query without its doctor filter.
AppointmentsOfAnyDoctor(appts, doctor_id) ==
    {i \in 1..Len(appts) : TRUE}

\* db.query(Appointment).filter(Appointment.doctor_id == doctor_id).all()
AppointmentsOfDoctor(appts, doctor_id) ==
    {i \in 1..Len(appts) : appts[i].doctor_id = doctor_id}

\* Mutation: a conflict only when the candidate starts within the existing
\* appointment.
OverlapsStartWithin(start_time, appointment_end, existing) ==
    LET existing_start == _ensure_timezone_aware(existing.start_datetime)
        existing_end == Instant(existing_start)
                            + timedelta_minutes(existing.duration_minutes)
    IN  /\ Instant(existing_start) <= Instant(start_time)
        /\ Instant(start_time) < existing_end

\* Mutation: the overlap test on closed intervals.
OverlapsClosed(start_time, appointment_end, existing) ==
    LET existing_start == _ensure_timezone_aware(existing.start_datetime)
        existing_end == Instant(existing_start)
                            + timedelta_minutes(existing.duration_minutes)
    IN  /\ Instant(start_time) <= existing_end
        /\ appointment_end >= Instant(existing_start)

\* The overlap test of the scan loop.
Overlaps(start_time, appointment_end, existing) ==
    LET existing_start == _ensure_timezone_aware(existing.start_datetime)
        existing_end == Instant(existing_start)
                            + timedelta_minutes(existing.duration_minutes)
    IN  /\ Instant(start_time) < existing_end
        /\ appointment_end > Instant(existing_start)

\* Mutation: the scan also takes the appointments of the patient with other
\* doctors.
HasConflictOfPatient(appts, data) ==
    LET start_time == _ensure_timezone_aware(data.start_datetime)
        appointment_end == Instant(start_time)
                               + timedelta_minutes(data.duration_minutes)
    IN  \E i \in 1..Len(appts) :
            /\ \/ appts[i].doctor_id = data.doctor_id
               \/ appts[i].patient_id = data.patient_id
            /\ Overlaps(start_time, appointment_end, appts[i])

\* Mutation: the scan restricted to the appointments that start on the
\* calendar day of the candidate.
HasConflictSameDay(appts, data) ==
    LET start_time == _ensure_timezone_aware(data.start_datetime)
        appointment_end == Instant(start_time)
                               + timedelta_minutes(data.duration_minutes)
    IN  \E i \in AppointmentsOfDoctor(appts, data.doctor_id) :
            /\ appts[i].start_datetime.wall \div SecondsPerDay
                  = Instant(start_time) \div SecondsPerDay
            /\ Overlaps(start_time, appointment_end, appts[i])

HasConflict(appts, data) ==
    LET start_time == _ensure_timezone_aware(data.start_datetime)
        appointment_end == Instant(start_time)
                               + timedelta_minutes(data.duration_minutes)
    IN  \E i \in AppointmentsOfDoctor(appts, data.doctor_id) :
            Overlaps(start_time, appointment_end, appts[i])

\* Mutation: the service without the check of is_active.
DoctorCheckIgnoringActive(docs, data) ==
    IF ~(data.doctor_id \in 1..Len(docs)) THEN ErrNoDoctor
    ELSE NONE

\* The error create_appointment raises after its query of the doctor, or
\* NONE.  docs is the doctors table as the query reads it.
DoctorCheck(docs, data) ==
    IF ~(data.doctor_id \in 1..Len(docs)) THEN ErrNoDoctor
    ELSE IF ~docs[data.doctor_id].is_active THEN ErrInactive
    ELSE NONE

\* The error create_appointment raises after reading the clock, or NONE.
\* t is the value of datetime.now(timezone.utc).
TimeCheck(data, t) ==
    IF Instant(_ensure_timezone_aware(data.start_datetime)) < t THEN ErrPast
    ELSE NONE

\* The row built at the end of create_appointment, as the store keeps it.
NewAppointment(data) ==
    [patient_id |-> data.patient_id,
     doctor_id |-> data.doctor_id,
     start_datetime |-> StoredDateTime(_ensure_timezone_aware(data.start_datetime)),
     duration_minutes |-> data.duration_minutes,
     reason |-> data.reason]

\* The appointment create_appointment returns: the row as db.refresh reads
\* it back, its start labelled UTC when it comes back without tzinfo.
ReturnedAppointment(row) ==
    [row EXCEPT !.start_datetime =
        IF ~row.start_datetime.aware
        THEN Aware(row.start_datetime.wall, 0)
        ELSE row.start_datetime]

\* db.commit() of the new row: the foreign keys are checked by the backend
\* when it enforces them.
InsertFails(pats, docs, row) ==
    enforce_fk /\ (~(row.patient_id \in 1..Len(pats)) \/ ~(row.doctor_id \in 1..Len(docs)))

\* Mutation: a failed commit that leaves its row behind.
CommitWithoutRollback(appts, pats, docs, row) == Append(appts, row)

\* The appointments table after db.add(row); db.commit(): a failed commit is
\* rolled back when the session is closed.
Commit(appts, pats, docs, row) ==
    IF InsertFails(pats, docs, row) THEN appts ELSE Append(appts, row)

\* Mutation: every ValueError of the service answered 400.
StatusOfAlwaysBadRequest(detail) == HTTP_400_BAD_REQUEST

\* Mutation: every message that names the doctor answered as a conflict.
StatusOfDoctorMessages(detail) ==
    IF detail \in {ErrConflict, ErrNoDoctor, ErrInactive}
    THEN HTTP_409_CONFLICT ELSE HTTP_400_BAD_REQUEST

\* The endpoint's mapping of a service error to a status code.
StatusOf(detail) ==
    IF detail = ErrConflict THEN HTTP_409_CONFLICT ELSE HTTP_400_BAD_REQUEST

----------------------------------------------------------------------------
(* Responses *)

NoData == [patient_id |-> 0, doctor_id |-> 0, start_datetime |-> Naive(0),
           duration_minutes |-> 0, reason |-> NONE]

\* The optional query parameter doctor_id of GET /appointments.
Nothing == [given |-> FALSE, id |-> 0]
Given(id) == [given |-> TRUE, id |-> id]

\* The query parameter date: a text that is a calendar date, day days after
\* the day the clock of the model starts in, or a text that is none.
DateText(day) == [ok |-> TRUE, day |-> day]
BadDateText == [ok |-> FALSE, day |-> 0]

NoQuery == [date |-> BadDateText, doctor_id |-> Nothing]

\* The path parameter and the body of PUT /doctors/{doctor_id}.
NoUpdate == [doctor_id |-> 0, full_name |-> NONE, specialization |-> NONE,
             is_active |-> NONE]

\* The row of no doctor.
NoDoctor == [full_name |-> NONE, specialization |-> NONE, is_active |-> FALSE]

\* A response: the call it answers, its status and detail.  For a schedule
\* call t_schema is the clock value the schema compared the start with and
\* t_service the one create_appointment read, or the clock value at which it
\* raised when it raised before reading the clock.  id is the primary key of
\* the object a 201 returns, 0 in every other response.
Response(op, data, status, detail, t1, t2) ==
    [op |-> op, data |-> data, status |-> status, detail |-> detail,
     t_schema |-> t1, t_service |-> t2, query |-> NoQuery, items |-> <<>>,
     email |-> NONE, update |-> NoUpdate, doctor |-> NoDoctor, id |-> 0]

\* No response: the latest step of a handler returned nothing to a client.
NoResponse == Response("none", NoData, 0, <<>>, 0, 0)

\* The response of GET /appointments: the query and the rows returned.
ListResponse(query, status, detail, items) ==
    [Response("list", NoData, status, detail, 0, 0)
        EXCEPT !.query = query, !.items = items]

\* The worker threads that run the handlers.
Procs == {1, 2, 3}

\* A worker thread with no request: its session holds nothing.  id is the
\* primary key the session's new object received at db.commit(), 0 before.
Idle == [pc |-> "idle", data |-> NoData, update |-> NoUpdate,
         loaded |-> NoDoctor, t_schema |-> 0, t_service |-> 0,
         status |-> 0, detail |-> <<>>, id |-> 0]

\* No request is in flight on any worker thread.
Quiet == \A p \in Procs : calls[p].pc = "idle"

\* The handler on thread p returns resp; its session is closed.
Respond(p, resp) ==
    /\ calls' = [calls EXCEPT ![p] = Idle]
    /\ last' = resp

\* The handler on thread p goes on to its next statement.
Continue(p, call) ==
    /\ calls' = [calls EXCEPT ![p] = call]
    /\ last' = NoResponse


Init ==
    /\ now = 0
    /\ enforce_fk \in BOOLEAN
    /\ patients = <<>>
    /\ doctors = <<>>
    /\ appointments = <<>>
    /\ last = Response("init", NoData, 0, <<>>, 0, 0)
    /\ calls = [p \in Procs |-> Idle]

----------------------------------------------------------------------------
(* The clock *)

Tick ==
    /\ now < MaxNow
    /\ now' = now + 1
    /\ UNCHANGED <<enforce_fk, patients, doctors, appointments, last, calls>>

----------------------------------------------------------------------------
(* Patients and doctors *)

\* The response of POST /patients: the email of the request and the id of
\* the patient returned.
PatientResponse(email, status, detail, id) ==
    [Response("create_patient", NoData, status, detail, 0, 0)
        EXCEPT !.email = email, !.id = id]

\* Mutation: the patients table without the unique index on email.
InsertPatientWithoutUniqueIndex(p, email) ==
    /\ calls[p].pc = "idle"
    /\ Len(patients) < MaxPatients
    /\ patients' = Append(patients, [email |-> email])
    /\ Continue(p, [Idle EXCEPT !.pc = "patient_committed",
                                !.id = Len(patients) + 1])
    /\ UNCHANGED <<now, enforce_fk, doctors, appointments>>

\* POST /patients on worker thread p, up to db.commit(): the unique index on
\* email rejects a duplicate at the commit; a row that is committed is in the
\* table for every other request from this step on.
InsertPatient(p, email) ==
    LET dup == \E i \in 1..Len(patients) : patients[i].email = email
    IN  /\ calls[p].pc = "idle"
        /\ IF dup
           THEN /\ patients' = patients
                /\ Respond(p, PatientResponse(email, HTTP_400_BAD_REQUEST,
                                              <<ErrDupEmail>>, 0))
           ELSE /\ Len(patients) < MaxPatients
                /\ patients' = Append(patients, [email |-> email])
                /\ Continue(p, [Idle EXCEPT !.pc = "patient_committed",
                                            !.id = Len(patients) + 1])
        /\ UNCHANGED <<now, enforce_fk, doctors, appointments>>

\* db.refresh(patient) and the return: the row is read back by its primary
\* key and answered.
RefreshPatient(p) ==
    /\ calls[p].pc = "patient_committed"
    /\ Respond(p, PatientResponse(patients[calls[p].id].email,
                                  HTTP_201_CREATED, <<>>, calls[p].id))
    /\ UNCHANGED <<now, enforce_fk, patients, doctors, appointments>>

\* The response of POST /doctors: the id and the row returned.
CreatedDoctorResponse(id, row) ==
    [Response("create_doctor", NoData, HTTP_201_CREATED, <<>>, 0, 0)
        EXCEPT !.id = id, !.doctor = row]

\* Mutation: a doctor created under the name of an existing doctor replaces
\* that doctor's row.
InsertDoctorUpsert(p, full_name, specialization, is_active) ==
    LET same == {d \in 1..Len(doctors) : doctors[d].full_name = full_name}
        row == [full_name |-> full_name, specialization |-> specialization,
                is_active |-> is_active]
    IN  /\ calls[p].pc = "idle"
        /\ same # {} \/ Len(doctors) < MaxDoctors
        /\ doctors' = IF same # {}
                      THEN [d \in 1..Len(doctors) |->
                               IF d \in same THEN row ELSE doctors[d]]
                      ELSE Append(doctors, row)
        /\ Continue(p, [Idle EXCEPT !.pc = "doctor_committed",
                                    !.id = IF same # {}
                                           THEN CHOOSE d \in same : TRUE
                                           ELSE Len(doctors) + 1])
        /\ UNCHANGED <<now, enforce_fk, patients, appointments>>

\* POST /doctors on worker thread p, up to db.commit(): the row is in the
\* table for every other request from this step on.
InsertDoctor(p, full_name, specialization, is_active) ==
    /\ calls[p].pc = "idle"
    /\ Len(doctors) < MaxDoctors
    /\ doctors' = Append(doctors, [full_name |-> full_name,
                                   specialization |-> specialization,
                                   is_active |-> is_active])
    /\ Continue(p, [Idle EXCEPT !.pc = "doctor_committed",
                                !.id = Len(doctors) + 1])
    /\ UNCHANGED <<now, enforce_fk, patients, appointments>>

\* db.refresh(doctor) and the return: the row is read back by its primary
\* key, as the table holds it now, and answered.
RefreshDoctor(p) ==
    /\ calls[p].pc = "doctor_committed"
    /\ Respond(p, CreatedDoctorResponse(calls[p].id, doctors[calls[p].id]))
    /\ UNCHANGED <<now, enforce_fk, patients, doctors, appointments>>

\* The object after the assignments of PUT /doctors/{id}: only the provided
\* fields are assigned.  d is the row the session loaded.
UpdatedDoctor(d, full_name, specialization, is_active) ==
    [full_name |-> IF full_name # NONE THEN full_name ELSE d.full_name,
     specialization |-> IF specialization # NONE THEN specialization
                        ELSE d.specialization,
     is_active |-> IF is_active # NONE THEN is_active = "true" ELSE d.is_active]

\* The row after the UPDATE that db.commit() flushes: the session writes the
\* attributes whose assigned value differs from the value it loaded, and
\* leaves the other columns of the row as they are in the table.
FlushedDoctor(current, loaded, assigned) ==
    [full_name |-> IF assigned.full_name # loaded.full_name
                   THEN assigned.full_name ELSE current.full_name,
     specialization |-> IF assigned.specialization # loaded.specialization
                        THEN assigned.specialization ELSE current.specialization,
     is_active |-> IF assigned.is_active # loaded.is_active
                   THEN assigned.is_active ELSE current.is_active]

\* The response of PUT /doctors/{doctor_id}: the update requested and the
\* row returned.
DoctorResponse(update, status, detail, row) ==
    [Response("update_doctor", NoData, status, detail, 0, 0)
        EXCEPT !.update = update, !.doctor = row]

\* PUT /doctors/{doctor_id} on worker thread p: get_doctor_by_id loads the
\* row into the session of the request.
SelectDoctor(p, doctor_id, full_name, specialization, is_active) ==
    LET update == [doctor_id |-> doctor_id, full_name |-> full_name,
                   specialization |-> specialization, is_active |-> is_active]
    IN  /\ calls[p].pc = "idle"
        /\ IF ~DoctorExists(doctor_id)
           THEN Respond(p, DoctorResponse(update, HTTP_404_NOT_FOUND,
                                          <<ErrDoctor404>>, NoDoctor))
           ELSE Continue(p, [Idle EXCEPT !.pc = "loaded", !.update = update,
                                         !.loaded = doctors[doctor_id]])
        /\ UNCHANGED <<now, enforce_fk, patients, doctors, appointments>>

\* Mutation: an update that deactivates a doctor cancels its appointments.
CommitDoctorCancellingAppointments(p) ==
    LET u == calls[p].update
        loaded == calls[p].loaded
        assigned == UpdatedDoctor(loaded, u.full_name, u.specialization,
                                  u.is_active)
        row == FlushedDoctor(doctors[u.doctor_id], loaded, assigned)
    IN  /\ calls[p].pc = "loaded"
        /\ doctors' = [doctors EXCEPT ![u.doctor_id] = row]
        /\ appointments' =
              IF u.is_active = "false"
              THEN SelectSeq(appointments, LAMBDA a : a.doctor_id # u.doctor_id)
              ELSE appointments
        /\ Continue(p, [calls[p] EXCEPT !.pc = "updated"])
        /\ UNCHANGED <<now, enforce_fk, patients>>

\* The assignments to the loaded object and db.commit(): the UPDATE is in
\* the table for every other request from this step on.
CommitDoctor(p) ==
    LET u == calls[p].update
        loaded == calls[p].loaded
        assigned == UpdatedDoctor(loaded, u.full_name, u.specialization,
                                  u.is_active)
        row == FlushedDoctor(doctors[u.doctor_id], loaded, assigned)
    IN  /\ calls[p].pc = "loaded"
        /\ doctors' = [doctors EXCEPT ![u.doctor_id] = row]
        /\ Continue(p, [calls[p] EXCEPT !.pc = "updated"])
        /\ UNCHANGED <<now, enforce_fk, patients, appointments>>

\* db.refresh(doctor) and the return: the row is read back by its primary
\* key, as the table holds it now, and answered.
RefreshUpdatedDoctor(p) ==
    LET u == calls[p].update
    IN  /\ calls[p].pc = "updated"
        /\ Respond(p, DoctorResponse(u, HTTP_200_OK, <<>>,
                                     doctors[u.doctor_id]))
        /\ UNCHANGED <<now, enforce_fk, patients, doctors, appointments>>

----------------------------------------------------------------------------
(* POST /appointments on worker thread p, statement by statement: the body *)
(* is validated, then create_appointment queries the doctor, reads the     *)
(* clock, queries the doctor's appointments, commits the new row and reads *)
(* it back.  Each request has its own session and nothing is locked, so    *)
(* the steps of other requests and the clock can come between any two of   *)
(* them.                                                                   *)

\* The request body is parsed into AppointmentCreate; its validators read
\* the clock.
ReceiveRequest(p, data) ==
    LET errs == AppointmentCreate(data, now)
    IN  /\ calls[p].pc = "idle"
        /\ IF errs # <<>>
           THEN Respond(p, Response("schedule", data, HTTP_422_UNPROCESSABLE,
                                    errs, now, now))
           ELSE Continue(p, [Idle EXCEPT !.pc = "validated", !.data = data,
                                         !.t_schema = now])
        /\ UNCHANGED <<now, enforce_fk, patients, doctors, appointments>>

\* Mutation: the clock is read and compared ahead of the doctor checks.
QueryDoctorAfterClock(p) ==
    LET data == calls[p].data
        err == IF TimeCheck(data, now) # NONE THEN TimeCheck(data, now)
               ELSE DoctorCheck(doctors, data)
    IN  /\ calls[p].pc = "validated"
        /\ IF err # NONE
           THEN Respond(p, Response("schedule", data, StatusOf(err), <<err>>,
                                    calls[p].t_schema, now))
           ELSE Continue(p, [calls[p] EXCEPT !.pc = "doctor_ok"])
        /\ UNCHANGED <<now, enforce_fk, patients, doctors, appointments>>

\* db.query(Doctor).filter(Doctor.id == data.doctor_id).first() and the two
\* checks of the doctor.
QueryDoctor(p) ==
    LET data == calls[p].data
        err == DoctorCheck(doctors, data)
    IN  /\ calls[p].pc = "validated"
        /\ IF err # NONE
           THEN Respond(p, Response("schedule", data, StatusOf(err), <<err>>,
                                    calls[p].t_schema, now))
           ELSE Continue(p, [calls[p] EXCEPT !.pc = "doctor_ok"])
        /\ UNCHANGED <<now, enforce_fk, patients, doctors, appointments>>

\* current_time = datetime.now(timezone.utc) and the comparison with it.
ReadClock(p) ==
    LET data == calls[p].data
        err == TimeCheck(data, now)
    IN  /\ calls[p].pc = "doctor_ok"
        /\ IF err # NONE
           THEN Respond(p, Response("schedule", data, StatusOf(err), <<err>>,
                                    calls[p].t_schema, now))
           ELSE Continue(p, [calls[p] EXCEPT !.pc = "timed", !.t_service = now])
        /\ UNCHANGED <<now, enforce_fk, patients, doctors, appointments>>

\* The query of the doctor's appointments and the scan loop.
ScanAppointments(p) ==
    LET data == calls[p].data
    IN  /\ calls[p].pc = "timed"
        /\ IF HasConflict(appointments, data)
           THEN Respond(p, Response("schedule", data, StatusOf(ErrConflict),
                                    <<ErrConflict>>, calls[p].t_schema,
                                    calls[p].t_service))
           ELSE Continue(p, [calls[p] EXCEPT !.pc = "scanned"])
        /\ UNCHANGED <<now, enforce_fk, patients, doctors, appointments>>

\* The response 201 of POST /appointments: the request and the id of the
\* appointment returned.
CreatedResponse(data, id, t1, t2) ==
    [Response("schedule", data, HTTP_201_CREATED, <<>>, t1, t2) EXCEPT !.id = id]

\* db.add(appointment); db.commit(): a commit the store refuses is answered
\* 400; a row that is committed is in the table for every other request
\* from this step on.
CommitAppointment(p) ==
    LET data == calls[p].data
        row == NewAppointment(data)
    IN  /\ calls[p].pc = "scanned"
        /\ IF InsertFails(patients, doctors, row)
           THEN /\ appointments' = Commit(appointments, patients, doctors, row)
                /\ Respond(p, Response("schedule", data, HTTP_400_BAD_REQUEST,
                                       <<ErrIntegrity>>, calls[p].t_schema,
                                       calls[p].t_service))
           ELSE /\ Len(appointments) < MaxAppointments
                /\ appointments' = Commit(appointments, patients, doctors, row)
                /\ Continue(p, [calls[p] EXCEPT !.pc = "committed",
                                                !.id = Len(appointments) + 1])
        /\ UNCHANGED <<now, enforce_fk, patients, doctors>>

\* db.refresh(appointment), the relabelling of its start and the return.
RefreshAppointment(p) ==
    /\ calls[p].pc = "committed"
    /\ Respond(p, CreatedResponse(calls[p].data, calls[p].id,
                                  calls[p].t_schema, calls[p].t_service))
    /\ UNCHANGED <<now, enforce_fk, patients, doctors, appointments>>

\* A step of create_appointment on worker thread p.
create_appointment(p) ==
    \/ QueryDoctor(p)
    \/ ReadClock(p)
    \/ ScanAppointments(p)
    \/ CommitAppointment(p)
    \/ RefreshAppointment(p)

\* The verdict of one pass of the scan loop, kept on the thread.
Done(p, status, detail, t2) ==
    [calls EXCEPT ![p] = [@ EXCEPT !.pc = "done", !.status = status,
                                   !.detail = detail, !.t_service = t2]]

----------------------------------------------------------------------------
(* GET /appointments?date=YYYY-MM-DD[&doctor_id=N]                         *)

\* datetime.strptime(date, "%Y-%m-%d").replace(tzinfo=timezone.utc)
strptime_utc(date) == Aware(date.day * SecondsPerDay, 0)

\* date.replace(hour=0, minute=0, second=0, microsecond=0)
DayStart(date) == [date EXCEPT !.wall = date.wall - (date.wall % SecondsPerDay)]

\* day_start + timedelta(days=1)
DayEnd(date) == [DayStart(date) EXCEPT !.wall = DayStart(date).wall + SecondsPerDay]

\* The rows of the table as a query returns them, each with its id.
RowsWithId(appts) ==
    {[id |-> i,
      patient_id |-> appts[i].patient_id,
      doctor_id |-> appts[i].doctor_id,
      start_datetime |-> appts[i].start_datetime,
      duration_minutes |-> appts[i].duration_minutes,
      reason |-> appts[i].reason] : i \in 1..Len(appts)}

\* Mutation: the day window closed at day_end.
InDayClosed(row, date) ==
    /\ row.start_datetime.wall >= StoredDateTime(DayStart(date)).wall
    /\ row.start_datetime.wall <= StoredDateTime(DayEnd(date)).wall

\* start_datetime >= day_start AND start_datetime < day_end: the bounds are
\* bound to the DateTime column like any other value, by their wall-clock
\* fields.
InDay(row, date) ==
    /\ row.start_datetime.wall >= StoredDateTime(DayStart(date)).wall
    /\ row.start_datetime.wall < StoredDateTime(DayEnd(date)).wall

\* The first n values of f as a sequence.
RECURSIVE AsSeq(_, _)
AsSeq(f, n) == IF n = 0 THEN <<>> ELSE Append(AsSeq(f, n - 1), f[n])

\* The sequences a query can return the rows in: each row once.
Orderings(rows) ==
    LET n == Cardinality(rows)
    IN  {AsSeq(f, n) : f \in {g \in [1..n -> rows] :
                                 \A i, j \in 1..n : g[i] = g[j] => i = j}}

\* Mutation: rows in descending order of start_datetime.
OrderByStartDescending(rows) ==
    {s \in Orderings(rows) :
        \A k \in 1..(Len(s) - 1) :
            s[k].start_datetime.wall >= s[k + 1].start_datetime.wall}

\* .order_by(Appointment.start_datetime).all(): the results the statement
\* can return, ascending by the stored start.  The statement names no
\* second key, so rows with equal starts come in an order the backend
\* chooses at each execution.
OrderByStart(rows) ==
    {s \in Orderings(rows) :
        \A k \in 1..(Len(s) - 1) :
            s[k].start_datetime.wall <= s[k + 1].start_datetime.wall}

\* The results the query of the service can return.
get_appointments_by_doctor_and_date(appts, doctor_id, date) ==
    OrderByStart({r \in RowsWithId(appts) :
                     r.doctor_id = doctor_id /\ InDay(r, date)})

\* The results the query of the endpoint can return when no doctor is asked
\* for.
AppointmentsOfDate(appts, date) ==
    OrderByStart({r \in RowsWithId(appts) : InDay(r, date)})

\* `if doctor_id:' on an optional integer.
Truthy(doctor_id) == doctor_id.given /\ doctor_id.id # 0

list_appointments_endpoint(date, doctor_id) ==
    LET query == [date |-> date, doctor_id |-> doctor_id]
        parsed_date == strptime_utc(date)
    IN  /\ IF ~date.ok
           THEN last' = ListResponse(query, HTTP_400_BAD_REQUEST, <<ErrDate>>,
                                     <<>>)
           ELSE IF Truthy(doctor_id)
           THEN IF ~parsed_date.aware
                THEN last' = ListResponse(query, HTTP_400_BAD_REQUEST,
                                          <<ErrDate>>, <<>>)
                ELSE \E items \in get_appointments_by_doctor_and_date(
                                      appointments, doctor_id.id, parsed_date) :
                         last' = ListResponse(query, HTTP_200_OK, <<>>, items)
           ELSE \E items \in AppointmentsOfDate(appointments, parsed_date) :
                    last' = ListResponse(query, HTTP_200_OK, <<>>, items)
        /\ UNCHANGED <<now, enforce_fk, patients, doctors, appointments, calls>>

----------------------------------------------------------------------------
(* Inputs *)

Emails == {"a@example.com"}
Names == {"Dr. A"}
Specializations == {"General"}
Reasons == {NONE}
\* The names of the specifications that rename doctors.
RegistryNames == {"Dr. A", "Dr. B"}
\* The ids a request may name: those of the patients the registrations of
\* the specification can create.
PatientIds == 1..Cardinality(Emails)
DoctorIds == 1..MaxDoctors

RequestsOf(starts, durations) ==
    [patient_id : PatientIds, doctor_id : DoctorIds,
     start_datetime : starts, duration_minutes : durations,
     reason : Reasons]

\* Requests around the validation gates: a naive start, starts at and just
\* after the first clock values, a start well in the future; durations at
\* both edges of the accepted range.
GateRequests ==
    RequestsOf({Naive(3600), Aware(0, 0), Aware(1, 0), Aware(3600, 0)},
               {14, 15, 180, 181})

\* Requests around one afternoon: 13:30, 14:00, 14:15 and 15:00 counted from
\* 13:00, for 30 or 60 minutes, and 15:00 at UTC+01:00.
OverlapRequests ==
    RequestsOf({Aware(1800, 0), Aware(3600, 0), Aware(4500, 0), Aware(7200, 0),
                Aware(7200, 3600)},
               {30, 60})

\* Calls made one at a time: a request is sent when no request is in flight
\* and is handled on worker thread 1; the clock runs while it is handled.
NextOf(requests) ==
    \/ Tick
    \/ Quiet /\ \E e \in Emails : InsertPatient(1, e)
    \/ RefreshPatient(1)
    \/ Quiet /\ \E n \in Names, s \in Specializations, a \in BOOLEAN :
                    InsertDoctor(1, n, s, a)
    \/ RefreshDoctor(1)
    \/ Quiet /\ \E d \in DoctorIds, a \in {NONE, "true", "false"} :
                    SelectDoctor(1, d, NONE, NONE, a)
    \/ CommitDoctor(1)
    \/ RefreshUpdatedDoctor(1)
    \/ Quiet /\ \E data \in requests : ReceiveRequest(1, data)
    \/ create_appointment(1)

Next == NextOf(GateRequests)

Spec == Init /\ [][Next]_vars

NextOverlap == NextOf(OverlapRequests)

\* Concurrent requests for doctor 1, for 14:00 and 14:15, 30 minutes each,
\* all in UTC.
ConcurrentRequests ==
    {data \in RequestsOf({Aware(3600, 0), Aware(4500, 0)}, {30}) :
        data.doctor_id = 1}

\* The store after one patient and MaxDoctors active doctors were created;
\* the clock is held still while the requests interleave.
InitConcurrent ==
    /\ now = 0
    /\ enforce_fk \in BOOLEAN
    /\ patients = <<[email |-> "a@example.com"]>>
    /\ doctors = [i \in 1..MaxDoctors |->
                     [full_name |-> "Dr. A", specialization |-> "General",
                      is_active |-> TRUE]]
    /\ appointments = <<>>
    /\ last = CreatedDoctorResponse(Len(doctors), doctors[Len(doctors)])
    /\ calls = [p \in Procs |-> Idle]

\* Two schedule calls and one update of doctor 1 in flight together, their
\* steps in any order.
NextConcurrent ==
    \/ \E a \in {"true", "false"} : SelectDoctor(3, 1, NONE, NONE, a)
    \/ CommitDoctor(3)
    \/ RefreshUpdatedDoctor(3)
    \/ \E p \in {1, 2}, data \in ConcurrentRequests : ReceiveRequest(p, data)
    \/ \E p \in {1, 2} : create_appointment(p)

SpecConcurrent == InitConcurrent /\ [][NextConcurrent]_vars

\* The store after one patient and one active doctor were created.
InitUpdates ==
    /\ now = 0
    /\ enforce_fk \in BOOLEAN
    /\ patients = <<[email |-> "a@example.com"]>>
    /\ doctors = <<[full_name |-> "Dr. A", specialization |-> "General",
                    is_active |-> TRUE]>>
    /\ appointments = <<>>
    /\ last = CreatedDoctorResponse(Len(doctors), doctors[Len(doctors)])
    /\ calls = [p \in Procs |-> Idle]

\* Two updates of a doctor in flight together, of its name and of is_active,
\* and the creation of a second doctor, their steps in any order.
NextUpdates ==
    \/ \E p \in {1, 2}, d \in DoctorIds, n \in RegistryNames \cup {NONE},
          a \in {NONE, "true", "false"} :
           SelectDoctor(p, d, n, NONE, a)
    \/ \E p \in {1, 2} : CommitDoctor(p)
    \/ \E p \in {1, 2} : RefreshUpdatedDoctor(p)
    \/ \E s \in Specializations, a \in BOOLEAN : InsertDoctor(3, "Dr. A", s, a)
    \/ RefreshDoctor(3)

SpecUpdates == InitUpdates /\ [][NextUpdates]_vars

SpecOverlap == Init /\ [][NextOverlap]_vars

\* Requests around the day after the one the clock starts in: 00:00, 01:00
\* and 24:00 of that day in UTC, and 00:30 of that day at UTC+01:00.
ListingRequests ==
    [patient_id : {1, 2}, doctor_id : DoctorIds,
     start_datetime : {Aware(SecondsPerDay, 0), Aware(SecondsPerDay + 3600, 0),
                       Aware(2 * SecondsPerDay, 0),
                       Aware(SecondsPerDay + 1800, 3600)},
     duration_minutes : {30}, reason : Reasons]

Dates == {DateText(0), DateText(1), DateText(2), BadDateText}

DoctorFilters == {Nothing} \cup {Given(d) : d \in 0..(MaxDoctors + 1)}

\* The store after two patients and MaxDoctors active doctors were created.
InitListing ==
    /\ now = 0
    /\ enforce_fk \in BOOLEAN
    /\ patients = <<[email |-> "a@example.com"], [email |-> "b@example.com"]>>
    /\ doctors = [i \in 1..MaxDoctors |->
                     [full_name |-> "Dr. A", specialization |-> "General",
                      is_active |-> TRUE]]
    /\ appointments = <<>>
    /\ last = CreatedDoctorResponse(Len(doctors), doctors[Len(doctors)])
    /\ calls = [p \in Procs |-> Idle]

NextListing ==
    \/ Quiet /\ \E d \in DoctorIds, a \in {"true", "false"} :
                    SelectDoctor(1, d, NONE, NONE, a)
    \/ CommitDoctor(1)
    \/ RefreshUpdatedDoctor(1)
    \/ Quiet /\ \E data \in ListingRequests : ReceiveRequest(1, data)
    \/ create_appointment(1)
    \/ Quiet /\ \E date \in Dates, d \in DoctorFilters :
                    list_appointments_endpoint(date, d)

SpecListing == InitListing /\ [][NextListing]_vars

\* Registrations with two emails.
RegistryEmails == {"a@example.com", "b@example.com"}

\* Registrations of patients in flight together on two worker threads,
\* their steps in any order; doctors are created and updated on the third,
\* one call at a time.
NextRegistry ==
    \/ \E p \in {1, 2}, e \in RegistryEmails : InsertPatient(p, e)
    \/ \E p \in {1, 2} : RefreshPatient(p)
    \/ \E n \in RegistryNames, s \in Specializations, a \in BOOLEAN :
           InsertDoctor(3, n, s, a)
    \/ RefreshDoctor(3)
    \/ \E d \in 1..(MaxDoctors + 1), n \in RegistryNames \cup {NONE},
          a \in {NONE, "true", "false"} :
           SelectDoctor(3, d, n, NONE, a)
    \/ CommitDoctor(3)
    \/ RefreshUpdatedDoctor(3)

SpecRegistry == Init /\ [][NextRegistry]_vars

\* Doctors with two names and two specializations, updated in any of their
\* fields, with one patient and appointments at 14:00 for 30 minutes.
RegistrySpecializations == {"General", "Cardiology"}

DoctorRequests == RequestsOf({Aware(3600, 0)}, {30})

NextDoctors ==
    \/ Quiet /\ \E e \in Emails : InsertPatient(1, e)
    \/ RefreshPatient(1)
    \/ Quiet /\ \E n \in RegistryNames, s \in RegistrySpecializations,
                   a \in BOOLEAN :
                    InsertDoctor(1, n, s, a)
    \/ RefreshDoctor(1)
    \/ Quiet /\ \E d \in 1..(MaxDoctors + 1), n \in RegistryNames \cup {NONE},
                   s \in RegistrySpecializations \cup {NONE},
                   a \in {NONE, "true", "false"} :
                    SelectDoctor(1, d, n, s, a)
    \/ CommitDoctor(1)
    \/ RefreshUpdatedDoctor(1)
    \/ Quiet /\ \E data \in DoctorRequests : ReceiveRequest(1, data)
    \/ create_appointment(1)

SpecDoctors == Init /\ [][NextDoctors]_vars

\* Requests around midnight: 23:00 of the day the clock starts in, 00:30 and
\* 01:00 of the next day, for 30 or 120 minutes.
MidnightRequests ==
    RequestsOf({Aware(SecondsPerDay - 3600, 0), Aware(SecondsPerDay + 1800, 0),
                Aware(SecondsPerDay + 3600, 0)},
               {30, 120})

NextMidnight == NextOf(MidnightRequests)

SpecMidnight == Init /\ [][NextMidnight]_vars

\* The overlap test applied to two intervals, each taken once as the
\* candidate and once as the existing appointment.  The candidates start
\* at 14:00, 14:15, 14:30 or 15:00 UTC, written in UTC or at UTC+01:00, and
\* last 15, 30 or 60 minutes.
SymmetryRequests ==
    [patient_id : {1}, doctor_id : {1},
     start_datetime : {Aware(t + o, o) : t \in {3600, 4500, 5400, 7200},
                                         o \in {0, 3600}},
     duration_minutes : {15, 30, 60}, reason : Reasons]

\* The row of an appointment that starts at the instant the request asks
\* for, as a scan reads it from the table.
ExistingRow(data) ==
    [NewAppointment(data) EXCEPT
        !.start_datetime = StoredDateTime(Aware(Instant(data.start_datetime), 0))]

InitSymmetry ==
    /\ now = 0
    /\ enforce_fk \in BOOLEAN
    /\ patients = <<>>
    /\ doctors = <<>>
    /\ appointments = <<>>
    /\ last = Response("init", NoData, 0, <<>>, 0, 0)
    /\ \E a, b \in SymmetryRequests :
           calls = [p \in Procs |->
                       IF p = 1 THEN [Idle EXCEPT !.data = a]
                       ELSE IF p = 2 THEN [Idle EXCEPT !.data = b]
                       ELSE Idle]

\* One pass of the scan loop: the request of p as the candidate, the
\* interval of the other request as the existing appointment.
CompareIntervals(p, q) ==
    LET data == calls[p].data
        start_time == _ensure_timezone_aware(data.start_datetime)
        appointment_end == Instant(start_time)
                               + timedelta_minutes(data.duration_minutes)
        conflict == Overlaps(start_time, appointment_end,
                             ExistingRow(calls[q].data))
    IN  /\ p # q
        /\ calls[p].pc = "idle"
        /\ calls' = IF conflict
                    THEN Done(p, StatusOf(ErrConflict), <<ErrConflict>>, now)
                    ELSE Done(p, 0, <<>>, now)
        /\ UNCHANGED <<now, enforce_fk, patients, doctors, appointments, last>>

NextSymmetry == \E p, q \in {1, 2} : CompareIntervals(p, q)

SpecSymmetry == InitSymmetry /\ [][NextSymmetry]_vars

----------------------------------------------------------------------------
(* Vocabulary of the properties, stated on the persisted rows and on the   *)
(* request, independently of the operators of the service.                 *)

\* The instant a persisted row starts at: the stored wall-clock value, which
\* every reader of the table takes as UTC; and the instant it ends at.
RowStart(a) == a.start_datetime.wall
RowEnd(a) == RowStart(a) + 60 * a.duration_minutes

\* The instant a request asks for, and the end of the requested interval.
ReqStart(data) == data.start_datetime.wall - data.start_datetime.off
ReqEnd(data) == ReqStart(data) + 60 * data.duration_minutes

RowsOfDoctor(d) == {i \in 1..Len(appointments) : appointments[i].doctor_id = d}

\* A step that completes a schedule call, for the request data that the
\* response records.  When calls are made one at a time the patients and
\* the doctors before the step are those the call found when it was
\* received, and the appointments before the step are those it found and the
\* one it committed, if it committed one.
ScheduleStep(data) ==
    /\ last'.op = "schedule"
    /\ last'.data = data
    /\ last' # last \/ store' # store

\* The rows of doctor d that the call answered by the step found: every
\* persisted row of the doctor but the one the call itself committed, which
\* the response names (0 names none).
RowsFound(d) == RowsOfDoctor(d) \ {last'.id}

\* The request passes every gate before the conflict scan, on the store and
\* on the clock values the call compared its start with.
ReachesScan(data) ==
    /\ data.start_datetime.aware
    /\ ReqStart(data) > last'.t_schema
    /\ ReqStart(data) >= last'.t_service
    /\ 15 <= data.duration_minutes /\ data.duration_minutes <= 180
    /\ data.doctor_id \in 1..Len(doctors)
    /\ doctors[data.doctor_id].is_active

\* Some persisted row of the doctor overlaps the requested interval.
RequestOverlapsRow(data) ==
    \E i \in RowsFound(data.doctor_id) :
        /\ ReqStart(data) < RowEnd(appointments[i])
        /\ RowStart(appointments[i]) < ReqEnd(data)

\* The store takes the row of the request: the patient exists, or the
\* backend does not check the reference.
InsertPasses(data) ==
    ~enforce_fk \/ data.patient_id \in 1..Len(patients)

\* The call is answered 201 with the id of a persisted appointment.
Accepted(data) ==
    /\ last'.status = 201
    /\ last'.id \in 1..Len(appointments')

\* The call is answered with an error and has persisted nothing: the step
\* changes no table, and the session of the call answered committed no row.
Rejected ==
    /\ last'.status # 201
    /\ last'.id = 0
    /\ store' = store
    /\ \A p \in Procs : calls'[p] # calls[p] => calls[p].id = 0

----------------------------------------------------------------------------
\* C1: in every state reached by calls run one at a time, no two distinct
\* persisted appointments of the same doctor have overlapping half-open
\* intervals [start, start + duration_minutes).
C1_NoOverlap ==
    \A i, j \in 1..Len(appointments) :
        (i # j /\ appointments[i].doctor_id = appointments[j].doctor_id)
            => ~(/\ RowStart(appointments[i]) < RowEnd(appointments[j])
                 /\ RowStart(appointments[j]) < RowEnd(appointments[i]))

\* C2: a request that reaches the conflict scan is rejected with the
\* scheduling-conflict error (409) exactly when some persisted appointment
\* of its doctor satisfies candidateStart < existingEnd and
\* existingStart < candidateEnd; without such a row, and with the insert
\* passing the store, it is accepted.  With 14:00-15:00 booked, 14:15 for 30
\* minutes is rejected and 13:30 for 30 minutes is accepted.
C2_ConflictIffOverlap ==
    [][LET data == last'.data IN 
          (ScheduleStep(data) /\ ReachesScan(data)) =>
              /\ (last'.detail = <<ErrConflict>> /\ last'.status = 409)
                     <=> RequestOverlapsRow(data)
              /\ (~RequestOverlapsRow(data)
                    /\ InsertPasses(data))
                     => Accepted(data)
              /\ RequestOverlapsRow(data) => Rejected]_vars

C2_Witness ==
    /\ last.op = "schedule"
    /\ last.data.start_datetime = Aware(4500, 0)
    /\ last.data.duration_minutes = 30
    /\ last.status = 409
    /\ last.detail = <<ErrConflict>>
    /\ \E i \in RowsOfDoctor(last.data.doctor_id) :
           /\ RowStart(appointments[i]) = 3600
           /\ appointments[i].duration_minutes = 60

\* A persisted row of the doctor that the request touches end to start:
\* the request starts when the row ends, or ends when the row starts.
StartsAtEndOf(data, a) == ReqStart(data) = RowEnd(a)
EndsAtStartOf(data, a) == ReqEnd(data) = RowStart(a)

\* No row of the doctor other than row i overlaps the request.
OnlyNeighbour(data, i) ==
    \A j \in RowsFound(data.doctor_id) \ {i} :
        ~(/\ ReqStart(data) < RowEnd(appointments[j])
          /\ RowStart(appointments[j]) < ReqEnd(data))

\* C3: back-to-back appointments of one doctor are not conflicts, in both
\* directions: a request that starts exactly when a persisted appointment
\* ends, and a request that ends exactly when one starts, is accepted when
\* it passes the other gates and no other appointment overlaps it.
C3_BackToBack ==
    [][LET data == last'.data IN 
          (/\ ScheduleStep(data)
           /\ ReachesScan(data)
           /\ InsertPasses(data)
           /\ \E i \in RowsFound(data.doctor_id) :
                  /\ \/ StartsAtEndOf(data, appointments[i])
                     \/ EndsAtStartOf(data, appointments[i])
                  /\ OnlyNeighbour(data, i))
          => Accepted(data)]_vars

\* 14:00-15:00 is booked and the request for 15:00 has been accepted.
C3_Witness ==
    /\ last.op = "schedule"
    /\ last.status = 201
    /\ last.data.start_datetime = Aware(7200, 0)
    /\ Len(appointments) = 2
    /\ appointments[1].doctor_id = last.data.doctor_id
    /\ RowStart(appointments[1]) = 3600
    /\ RowEnd(appointments[1]) = 7200
    /\ RowStart(appointments[2]) = 7200
    /\ appointments[2].doctor_id = last.data.doctor_id

\* 14:00-15:00 is booked and the request for 13:30-14:00 has been accepted.
C3_WitnessBefore ==
    /\ last.op = "schedule"
    /\ last.status = 201
    /\ last.data.start_datetime = Aware(1800, 0)
    /\ last.data.duration_minutes = 30
    /\ Len(appointments) = 2
    /\ appointments[1].doctor_id = last.data.doctor_id
    /\ RowStart(appointments[1]) = 3600
    /\ RowEnd(appointments[2]) = 3600
    /\ appointments[2].doctor_id = last.data.doctor_id

\* C4: of two concurrent schedule calls for the same doctor with overlapping
\* intervals at most one persists an appointment, under every interleaving:
\* a step that commits an appointment commits one that no persisted
\* appointment of its doctor overlaps, and the persisted appointments of a
\* doctor never overlap.
C4_ConcurrentAtMostOne ==
    /\ [](\A i, j \in 1..Len(appointments) :
            (i < j /\ appointments[i].doctor_id = appointments[j].doctor_id)
              => \/ RowEnd(appointments[i]) <= RowStart(appointments[j])
                 \/ RowEnd(appointments[j]) <= RowStart(appointments[i]))
    /\ [][Len(appointments') = Len(appointments) + 1 =>
             LET row == appointments'[Len(appointments')]
             IN  \A i \in RowsOfDoctor(row.doctor_id) :
                     \/ RowEnd(appointments[i]) <= RowStart(row)
                     \/ RowEnd(row) <= RowStart(appointments[i])]_vars

----------------------------------------------------------------------------
(* The gates, stated on the request, the store and the clock values of    *)
(* the call.                                                               *)

DurationInRange(data) ==
    15 <= data.duration_minutes /\ data.duration_minutes <= 180

\* The body passes the schema at the clock value of its validation.
ValidBody(data) ==
    /\ data.start_datetime.aware
    /\ ReqStart(data) > last'.t_schema
    /\ DurationInRange(data)

DoctorMissing(data) == ~(data.doctor_id \in 1..Len(doctors))
DoctorInactive(data) ==
    /\ data.doctor_id \in 1..Len(doctors)
    /\ ~doctors[data.doctor_id].is_active

Reported(e) == \E k \in 1..Len(last'.detail) : last'.detail[k] = e

\* A step of the schedule call on worker thread p, the one that receives
\* the request included.
ScheduleCallStep(p) ==
    /\ calls'[p] # calls[p]
    /\ calls[p].data # NoData \/ calls'[p].data # NoData

\* C5: a successful schedule call adds exactly one appointment, the one
\* requested, and changes no patient, no doctor and no other appointment; a
\* rejected schedule call, whatever the reason, leaves appointments,
\* patients and doctors as they were.  Step by step: no step of a schedule
\* call changes a patient or a doctor; the only step that changes the
\* appointments is the commit, once in a call, which appends the requested
\* row; the call that committed is answered 201 with the id of that row,
\* and a call answered with an error committed nothing.
C5_ScheduleFrame ==
    [][/\ LET data == last'.data IN
             ScheduleStep(data) =>
                 /\ \A p \in Procs : calls'[p] # calls[p] => last'.id = calls[p].id
                 /\ last'.status = 201 =>
                       /\ Accepted(data)
                       /\ store' = store
                       /\ LET a == appointments[last'.id]
                          IN  /\ a.patient_id = data.patient_id
                              /\ a.doctor_id = data.doctor_id
                              /\ a.duration_minutes = data.duration_minutes
                              /\ a.reason = data.reason
                              /\ a.start_datetime.wall = data.start_datetime.wall
                 /\ last'.status # 201 => Rejected
       /\ \A p \in Procs :
             ScheduleCallStep(p) =>
                 /\ patients' = patients
                 /\ doctors' = doctors
                 /\ IF calls[p].id = 0 /\ calls'[p].id # 0
                    THEN /\ calls'[p].id = Len(appointments) + 1
                         /\ Len(appointments') = Len(appointments) + 1
                         /\ SubSeq(appointments', 1, Len(appointments)) = appointments
                         /\ LET a == appointments'[calls'[p].id]
                                data == calls[p].data
                            IN  /\ a.patient_id = data.patient_id
                                /\ a.doctor_id = data.doctor_id
                                /\ a.duration_minutes = data.duration_minutes
                                /\ a.reason = data.reason
                                /\ a.start_datetime.wall = data.start_datetime.wall
                    ELSE appointments' = appointments]_vars

\* A call rejected by the store at the insert, with nothing persisted.
C5_Witness ==
    /\ last.op = "schedule"
    /\ last.detail = <<ErrIntegrity>>
    /\ last.status = 400
    /\ ~(last.data.patient_id \in 1..Len(patients))
    /\ appointments = <<>>
    /\ doctors # <<>>

\* The error the claimed order of the gates reports for a request.
C6_ClaimedError(data) ==
    IF ~DurationInRange(data) THEN {ErrDuration}
    ELSE IF ReqStart(data) <= last'.t_schema THEN {ErrFuture, ErrPast}
    ELSE IF DoctorMissing(data) THEN {ErrNoDoctor}
    ELSE IF DoctorInactive(data) THEN {ErrInactive}
    ELSE IF RequestOverlapsRow(data) THEN {ErrConflict}
    ELSE {}

\* C6 as claimed: the gates short-circuit in the order duration, past start,
\* doctor not found, doctor inactive, conflict, and the response reports the
\* error of the earliest failing gate only.
C6_ClaimedGateOrder ==
    [][LET data == last'.data IN 
          (/\ ScheduleStep(data)
           /\ data.start_datetime.aware
           /\ C6_ClaimedError(data) # {})
          => /\ Len(last'.detail) = 1
             /\ last'.detail[1] \in C6_ClaimedError(data)]_vars

\* The errors of the schema for a body, in the order of the fields.
C6_SchemaErrors(data) ==
    (IF ~data.start_datetime.aware THEN <<ErrNaive>>
     ELSE IF ReqStart(data) <= last'.t_schema THEN <<ErrFuture>> ELSE <<>>)
    \o (IF ~DurationInRange(data) THEN <<ErrDuration>> ELSE <<>>)

\* C6: the schema is decided first, on the body and the clock alone, and
\* reports every failing field in one response (422), the start before the
\* duration; a body that passes it meets the gates of the service in the
\* fixed order doctor not found, doctor inactive, start before the service's
\* clock value, scheduling conflict, and the first failing one is reported.
C6_GateOrder ==
    [][LET data == last'.data IN 
          ScheduleStep(data) =>
              IF C6_SchemaErrors(data) # <<>>
              THEN /\ last'.status = 422
                   /\ last'.detail = C6_SchemaErrors(data)
                   /\ Rejected
              ELSE IF DoctorMissing(data)
              THEN last'.detail = <<ErrNoDoctor>> /\ last'.status = 400
              ELSE IF DoctorInactive(data)
              THEN last'.detail = <<ErrInactive>> /\ last'.status = 400
              ELSE IF ReqStart(data) < last'.t_service
              THEN last'.detail = <<ErrPast>> /\ last'.status = 400
              ELSE IF RequestOverlapsRow(data)
              THEN last'.detail = <<ErrConflict>> /\ last'.status = 409
              ELSE last'.detail \in {<<>>, <<ErrIntegrity>>}]_vars

\* A body that failed both validators: both errors in one response.
C6_Witness ==
    /\ last.op = "schedule"
    /\ last.status = 422
    /\ last.detail = <<ErrFuture, ErrDuration>>
    /\ last.data.duration_minutes = 14
    /\ ReqStart(last.data) <= last.t_schema

\* A start that had passed when the service read the clock, for a doctor
\* that does not exist: the doctor gate is the one reported.
C6_WitnessStale ==
    /\ last.op = "schedule"
    /\ last.detail = <<ErrNoDoctor>>
    /\ ReqStart(last.data) > last.t_schema
    /\ ReqStart(last.data) < last.t_service

\* C7 as claimed: for an inactive doctor every schedule request with an
\* offset and a valid duration is rejected with the doctor-inactive error,
\* whether its start is in the future or not, and nothing is persisted.
C7_ClaimedInactive ==
    [][LET data == last'.data IN 
          (/\ ScheduleStep(data)
           /\ DoctorInactive(data)
           /\ data.start_datetime.aware
           /\ DurationInRange(data))
          => last'.detail = <<ErrInactive>> /\ Rejected]_vars

\* C7: for an inactive doctor, every schedule request whose body passes the
\* schema is rejected with the doctor-inactive error (400), also when its
\* start has passed by the time the service reads the clock; a body that
\* fails the schema is rejected by the schema (422); nothing is persisted
\* in either case.
C7_Inactive ==
    [][LET data == last'.data IN 
          (ScheduleStep(data) /\ DoctorInactive(data))
          => /\ Rejected
             /\ ValidBody(data)
                  => last'.detail = <<ErrInactive>> /\ last'.status = 400
             /\ ~ValidBody(data) => last'.status = 422]_vars

C7_Witness ==
    /\ last.op = "schedule"
    /\ last.detail = <<ErrInactive>>
    /\ last.status = 400
    /\ last.data.doctor_id \in 1..Len(doctors)
    /\ ~doctors[last.data.doctor_id].is_active
    /\ ReqStart(last.data) < last.t_service
    /\ appointments = <<>>

\* C8: a schedule request whose body is valid and whose doctor_id matches
\* no doctor is rejected with 'Doctor does not exist', status 400, and
\* nothing is persisted.
C8_DoctorNotFound ==
    [][LET data == last'.data IN 
          (ScheduleStep(data) /\ ValidBody(data) /\ DoctorMissing(data))
          => /\ last'.detail = <<"Doctor does not exist">>
             /\ last'.status = 400
             /\ Rejected]_vars

C8_Witness ==
    /\ last.op = "schedule"
    /\ last.detail = <<"Doctor does not exist">>
    /\ last.status = 400
    /\ last.data.doctor_id > Len(doctors)
    /\ last.data.duration_minutes = 180
    /\ doctors # <<>>

\* C9: the duration is accepted by the validation exactly when it is within
\* 15..180 (14 and 181 rejected, 15 and 180 accepted), and every persisted
\* appointment has a duration within 15..180.
C9_Duration ==
    /\ \A i \in 1..Len(appointments) :
          /\ 15 <= appointments[i].duration_minutes
          /\ appointments[i].duration_minutes <= 180
    /\ last.op = "schedule" =>
          /\ (\E k \in 1..Len(last.detail) : last.detail[k] = ErrDuration)
                <=> last.data.duration_minutes \notin 15..180
          /\ last.data.duration_minutes \in {14, 181} => last.status = 422
          /\ last.status = 201 => last.data.duration_minutes \in 15..180

\* Appointments of 15 and of 180 minutes are persisted, the latter by the
\* last call.
C9_Witness ==
    /\ last.op = "schedule"
    /\ last.status = 201
    /\ last.data.duration_minutes = 180
    /\ \E i, j \in 1..Len(appointments) :
          /\ appointments[i].duration_minutes = 15
          /\ appointments[j].duration_minutes = 180

\* A 181-minute request rejected for its duration alone.
C9_WitnessRejected ==
    /\ last.op = "schedule"
    /\ last.status = 422
    /\ last.data.duration_minutes = 181
    /\ last.detail = <<ErrDuration>>

\* C10: a request whose start t is at or before now is rejected as scheduled
\* in the past and persists nothing; a request for t = now + 1 second, for an
\* existing active doctor without a conflicting appointment, succeeds.
C10_FutureOnly ==
    [][LET data == last'.data IN 
          (ScheduleStep(data) /\ data.start_datetime.aware) =>
              /\ ReqStart(data) <= last'.t_schema
                    => (Reported(ErrFuture) \/ Reported(ErrPast)) /\ Rejected
              /\ (/\ ReqStart(data) = last'.t_schema + 1
                  /\ DurationInRange(data)
                  /\ data.doctor_id \in 1..Len(doctors)
                  /\ doctors[data.doctor_id].is_active
                  /\ ~RequestOverlapsRow(data)
                  /\ InsertPasses(data))
                    => Accepted(data)]_vars

\* The part of C10 that the code keeps: a start at or before now is rejected
\* by the schema and persists nothing, and a start one second after now is
\* accepted when the service reads the clock no later than that start.
C10_FutureOnlyWithinOneSecond ==
    [][LET data == last'.data IN 
          (ScheduleStep(data) /\ data.start_datetime.aware) =>
              /\ ReqStart(data) <= last'.t_schema
                    => Reported(ErrFuture) /\ Rejected
              /\ (/\ ReqStart(data) = last'.t_schema + 1
                  /\ last'.t_service <= ReqStart(data)
                  /\ DurationInRange(data)
                  /\ data.doctor_id \in 1..Len(doctors)
                  /\ doctors[data.doctor_id].is_active
                  /\ ~RequestOverlapsRow(data)
                  /\ InsertPasses(data))
                    => Accepted(data)]_vars

\* C11: every accepted appointment starts strictly later than every clock
\* value its request was compared against: the one read when the schema
\* validated the body and the one read inside create_appointment.
C11_StrictlyAfterNow ==
    (last.op = "schedule" /\ last.status = 201) =>
        /\ ReqStart(last.data) > last.t_schema
        /\ ReqStart(last.data) > last.t_service

\* What the two comparisons of the code give: strictly later than the clock
\* of the schema, not earlier than the clock of the service.
C11_NotBeforeServiceClock ==
    (last.op = "schedule" /\ last.status = 201) =>
        /\ ReqStart(last.data) > last.t_schema
        /\ ReqStart(last.data) >= last.t_service

\* C12: a schedule request whose start carries no offset is not rejected
\* for that reason; it is taken as the same wall-clock time in UTC and goes
\* through the remaining gates as the UTC request would: with a start after
\* the clock, a duration within range, an active doctor, no overlapping row
\* and the insert passing the store, it is accepted.
C12_NaiveTakenAsUTC ==
    [][LET data == last'.data IN
          (ScheduleStep(data) /\ ~data.start_datetime.aware) =>
              /\ ~Reported(ErrNaive)
              /\ (/\ data.start_datetime.wall > last'.t_service
                  /\ DurationInRange(data)
                  /\ data.doctor_id \in 1..Len(doctors)
                  /\ doctors[data.doctor_id].is_active
                  /\ ~RequestOverlapsRow(data)
                  /\ InsertPasses(data))
                    => Accepted(data)]_vars

\* What the code does with a start without offset: the schema reports it
\* and nothing is persisted, whatever the other fields and the store are.
C12_NaiveRejectedBySchema ==
    [][LET data == last'.data IN
          (ScheduleStep(data) /\ ~data.start_datetime.aware) =>
              /\ Reported(ErrNaive)
              /\ last'.status = 422
              /\ Rejected]_vars

----------------------------------------------------------------------------
(* Vocabulary of the listing properties *)

\* A step that completes a GET /appointments call.
ListStep == last'.op = "list" /\ last' # last

\* The persisted row i starts within the day the text names: from 00:00:00
\* UTC of that day, up to but excluding 00:00:00 UTC of the next.
RowInDay(i, day) ==
    /\ day * 86400 <= RowStart(appointments[i])
    /\ RowStart(appointments[i]) < (day + 1) * 86400

\* The returned sequence has an element for the persisted row i.
ListedIn(items, i) ==
    \E k \in 1..Len(items) :
        /\ items[k].id = i
        /\ items[k].patient_id = appointments[i].patient_id
        /\ items[k].doctor_id = appointments[i].doctor_id
        /\ items[k].start_datetime = appointments[i].start_datetime
        /\ items[k].duration_minutes = appointments[i].duration_minutes

\* C13: setting is_active of a doctor to false deletes and changes no
\* appointment; the appointments of an inactive doctor are still returned
\* by the date listing; and every schedule request against a doctor that is
\* inactive is rejected and persists nothing.
C13_Deactivation ==
    [][/\ (\E d \in 1..Len(doctors) :
              doctors[d].is_active /\ ~doctors'[d].is_active)
          => appointments' = appointments
       /\ (/\ ListStep
           /\ last'.status = 200
           /\ last'.query.doctor_id.given
           /\ last'.query.doctor_id.id \in 1..Len(doctors)
           /\ ~doctors[last'.query.doctor_id.id].is_active)
          => \A i \in RowsOfDoctor(last'.query.doctor_id.id) :
                 RowInDay(i, last'.query.date.day)
                     => ListedIn(last'.items, i)
       /\ LET data == last'.data IN
             (ScheduleStep(data) /\ DoctorInactive(data)) => Rejected]_vars

\* The listing filtered by a deactivated doctor returns the appointment the
\* doctor had when deactivated.
C13_Witness ==
    /\ last.op = "list"
    /\ last.query.doctor_id.given
    /\ last.query.doctor_id.id \in 1..Len(doctors)
    /\ ~doctors[last.query.doctor_id.id].is_active
    /\ Len(last.items) = 2

\* A request against a deactivated doctor that has an appointment is
\* rejected.
C13_WitnessRejected ==
    /\ last.op = "schedule"
    /\ last.detail = <<ErrInactive>>
    /\ \E i \in 1..Len(appointments) :
          appointments[i].doctor_id = last.data.doctor_id

\* C14: under every interleaving of schedule calls and doctor updates, a
\* step that inserts an appointment inserts it for a doctor whose is_active
\* is true in the store at that step.
C14_ActiveAtInsert ==
    [][Len(appointments') = Len(appointments) + 1 =>
          LET row == appointments'[Len(appointments')]
          IN  /\ row.doctor_id \in 1..Len(doctors)
              /\ doctors[row.doctor_id].is_active]_vars

\* What the code keeps: the doctor was active when the service read its row,
\* so every call that finds the doctor inactive at that step persists nothing.
C14_ActiveAtCheck ==
    [][\A p \in Procs :
          (/\ calls[p].pc = "validated"
           /\ calls'[p] # calls[p]
           /\ DoctorInactive(calls[p].data))
          => /\ calls'[p].pc = "idle"
             /\ last'.detail = <<ErrInactive>>
             /\ appointments' = appointments]_vars

\* The rows a listing for the day may return: all rows that start within
\* the day, or those of doctor d when the listing is filtered by d.
RowsInDay(day) == {i \in 1..Len(appointments) : RowInDay(i, day)}

\* C15: the date listing returns exactly the persisted appointments whose
\* start t satisfies day_start <= t < day_end, day_start being 00:00:00 UTC
\* of the date and day_end 24 hours later: every element returned is a
\* persisted row within the window, returned once; a row that starts at
\* day_start is included and one that starts at day_end is not; and no row
\* within the window (of the doctor, when a doctor is asked for) is missing.
C15_DayWindow ==
    [][(ListStep /\ last'.status = 200) =>
          LET items == last'.items
              day == last'.query.date.day
              d == last'.query.doctor_id
          IN  /\ \A k \in 1..Len(items) :
                    /\ items[k].id \in RowsInDay(day)
                    /\ ListedIn(items, items[k].id)
                    /\ \A j \in 1..Len(items) :
                          items[j].id = items[k].id => j = k
              /\ \A i \in RowsInDay(day) :
                    (~d.given \/ appointments[i].doctor_id = d.id)
                        => ListedIn(items, i)
              /\ \A i \in 1..Len(appointments) :
                    /\ RowStart(appointments[i]) = day * 86400
                          /\ ~d.given => ListedIn(items, i)
                    /\ RowStart(appointments[i]) = (day + 1) * 86400
                          => ~ListedIn(items, i)]_vars

\* With one appointment at 00:00 of the day and one at 00:00 of the next,
\* the listing of the day returns the first and not the second.
C15_Witness ==
    /\ last.op = "list"
    /\ last.status = 200
    /\ ~last.query.doctor_id.given
    /\ Len(appointments) = 2
    /\ \E i, j \in 1..2 :
          /\ RowStart(appointments[i]) = last.query.date.day * 86400
          /\ RowStart(appointments[j]) = (last.query.date.day + 1) * 86400
          /\ Len(last.items) = 1
          /\ last.items[1].id = i

\* C16: whenever a doctor id is supplied to the date listing, every returned
\* appointment has exactly that doctor_id, for every integer id; for an id
\* that matches no doctor the result is empty.
C16_DoctorFilter ==
    [][(ListStep /\ last'.status = 200 /\ last'.query.doctor_id.given) =>
          /\ \A k \in 1..Len(last'.items) :
                last'.items[k].doctor_id = last'.query.doctor_id.id
          /\ ~(last'.query.doctor_id.id \in 1..Len(doctors))
                => last'.items = <<>>]_vars

\* What the code keeps: the same for every id other than 0.
C16_DoctorFilterNonZero ==
    [][(/\ ListStep
        /\ last'.status = 200
        /\ last'.query.doctor_id.given
        /\ last'.query.doctor_id.id # 0) =>
          /\ \A k \in 1..Len(last'.items) :
                last'.items[k].doctor_id = last'.query.doctor_id.id
          /\ ~(last'.query.doctor_id.id \in 1..Len(doctors))
                => last'.items = <<>>]_vars

\* C17: the sequence returned by the date listing, with or without a doctor
\* filter, is ascending by start_datetime: of two consecutive elements the
\* start of the first is less than or equal to the start of the second.
C17_Ascending ==
    last.op = "list" =>
        \A k \in 1..(Len(last.items) - 1) :
            RowStart(last.items[k]) <= RowStart(last.items[k + 1])

\* Two appointments listed against the order of their insertion: the one
\* inserted second starts earlier and is returned first.
C17_Witness ==
    /\ last.op = "list"
    /\ Len(last.items) = 2
    /\ last.items[1].id = 2
    /\ last.items[2].id = 1
    /\ RowStart(last.items[1]) < RowStart(last.items[2])

\* The same with a doctor filter.
C17_WitnessFiltered ==
    /\ C17_Witness
    /\ last.query.doctor_id.given
    /\ last.query.doctor_id.id = last.items[1].doctor_id

C18_SameRowsAscending ==
    [][/\ last'.op = "list" => store' = store
       /\ (/\ last.op = "list"
           /\ last'.op = "list"
           /\ last'.query = last.query)
          => /\ last'.status = last.status
             /\ Len(last'.items) = Len(last.items)
             /\ \A k \in 1..Len(last.items) :
                   \E j \in 1..Len(last'.items) : last'.items[j] = last.items[k]
             /\ \A k \in 1..(Len(last'.items) - 1) :
                   RowStart(last'.items[k]) <= RowStart(last'.items[k + 1])
             /\ \A k \in 1..Len(last'.items) :
                   RowStart(last'.items[k]) = RowStart(last.items[k])]_vars

\* A listing that returned two appointments with the same start_datetime,
\* the one persisted later first.
C18_TiedRows ==
    /\ last.op = "list"
    /\ Len(last.items) = 2
    /\ RowStart(last.items[1]) = RowStart(last.items[2])
    /\ last.items[1].id > last.items[2].id

\* The UTC date of the instant a request asks for, in days.
UTCDateOf(data) == ReqStart(data) \div 86400

\* Persisted appointments are never removed or changed.
RowsKept ==
    /\ Len(appointments') >= Len(appointments)
    /\ \A i \in 1..Len(appointments) : appointments'[i] = appointments[i]

\* A listing that follows the acceptance of a request, for the UTC date of
\* the requested start, unfiltered or filtered by the doctor of the request,
\* returns the appointment just persisted.
ListedAfterAcceptance ==
    (/\ last.op = "schedule"
     /\ last.status = 201
     /\ ListStep
     /\ last'.status = 200
     /\ last'.query.date.day = UTCDateOf(last.data)
     /\ last'.query.doctor_id.given
            => last'.query.doctor_id.id = last.data.doctor_id)
    => ListedIn(last'.items, last.id)

\* Two persisted appointments of two patients with one doctor, starting on
\* the day listed, are both returned by the listing filtered by that doctor,
\* the earlier start first.
BothListedEarlierFirst ==
    (/\ ListStep
     /\ last'.status = 200
     /\ last'.query.doctor_id.given
     /\ last'.query.doctor_id.id \in 1..Len(doctors))
    => \A i, j \in RowsOfDoctor(last'.query.doctor_id.id) :
          (/\ RowInDay(i, last'.query.date.day)
           /\ RowInDay(j, last'.query.date.day)
           /\ appointments[i].patient_id # appointments[j].patient_id
           /\ RowStart(appointments[i]) < RowStart(appointments[j]))
          => \E k, l \in 1..Len(last'.items) :
                k < l /\ last'.items[k].id = i /\ last'.items[l].id = j

\* C19: every appointment successfully scheduled for a doctor is from then on
\* returned by the listing for the UTC date of its start, filtered by that
\* doctor and unfiltered; two accepted appointments of two patients with the
\* same doctor on one day are both returned, the earlier start first.
C19_ListedOnUTCDate ==
    [][RowsKept /\ ListedAfterAcceptance /\ BothListedEarlierFirst]_vars

\* What the code keeps: the same for requests whose start is given in UTC.
C19_ListedOnUTCDateForUTCStarts ==
    [][/\ RowsKept
       /\ last.data.start_datetime.off = 0 => ListedAfterAcceptance
       /\ BothListedEarlierFirst]_vars

\* The scenario: two appointments of two patients with one doctor on one
\* day, returned by the listing filtered by that doctor, earlier first.
C19_Scenario ==
    /\ last.op = "list"
    /\ last.query.doctor_id.given
    /\ Len(last.items) = 2
    /\ last.items[1].doctor_id = last.query.doctor_id.id
    /\ last.items[2].doctor_id = last.query.doctor_id.id
    /\ last.items[1].patient_id # last.items[2].patient_id
    /\ RowStart(last.items[1]) < RowStart(last.items[2])

----------------------------------------------------------------------------
(* Patients *)

\* A step that completes a POST /patients call for the email e.
PatientStep(e) ==
    /\ last'.op = "create_patient"
    /\ last'.email = e
    /\ last' # last \/ store' # store

EmailHeld(e) == \E i \in 1..Len(patients) : patients[i].email = e

\* A persisted patient other than the one the response returns holds the
\* email e.
EmailHeldByAnother(e) ==
    \E i \in (1..Len(patients)) \ {last'.id} : patients[i].email = e

EmailsUnique ==
    \A i, j \in 1..Len(patients) :
        patients[i].email = patients[j].email => i = j

\* C20: no two persisted patients have the same email; a registration with
\* an email that a persisted patient holds is rejected with the
\* duplicate-email error and leaves the patients unchanged; a registration
\* with an email that no patient holds, also one that follows a rejected
\* registration, succeeds and adds the patient.  Step by step, with
\* registrations in flight together: a registration is answered with the
\* duplicate-email error exactly when a persisted patient other than its
\* own holds the email, and has then committed nothing; it is answered 201
\* otherwise, with the id of the persisted patient that holds the email; and
\* a step that changes the patients appends one patient, whose email no
\* persisted patient holds, and changes nothing else.
C20_UniqueEmail ==
    /\ []EmailsUnique
    /\ [][/\ LET e == last'.email IN
                 PatientStep(e) =>
                     /\ store' = store
                     /\ IF EmailHeldByAnother(e)
                        THEN /\ last'.status = 400
                             /\ last'.detail = <<"A patient with this email already exists.">>
                             /\ last'.id = 0
                             /\ \A p \in Procs :
                                   calls'[p] # calls[p] => calls[p].id = 0
                        ELSE /\ last'.status = 201
                             /\ last'.id \in 1..Len(patients)
                             /\ patients[last'.id].email = e
          /\ patients' # patients =>
                 /\ Len(patients') = Len(patients) + 1
                 /\ SubSeq(patients', 1, Len(patients)) = patients
                 /\ ~EmailHeld(patients'[Len(patients')].email)
                 /\ doctors' = doctors
                 /\ appointments' = appointments]_vars

\* A registration rejected for its email, one patient persisted.
C20_Witness ==
    /\ last.op = "create_patient"
    /\ last.status = 400
    /\ last.detail = <<ErrDupEmail>>
    /\ Len(patients) = 1
    /\ patients[1].email = last.email

\* A second patient registered with another email.
C20_WitnessSecond ==
    /\ last.op = "create_patient"
    /\ last.status = 201
    /\ Len(patients) = 2
    /\ patients[2].email = last.email
    /\ patients[1].email # last.email

----------------------------------------------------------------------------
(* References, lifetime of the rows, status codes *)

PatientReferenced(a) == a.patient_id \in 1..Len(patients)
DoctorReferenced(a) == a.doctor_id \in 1..Len(doctors)

\* C21: in every reachable state every persisted appointment's patient_id
\* is the id of a persisted patient and its doctor_id the id of a persisted
\* doctor; a schedule request that names a patient_id of no patient never
\* results in a persisted appointment.
C21_ReferentialIntegrity ==
    \A i \in 1..Len(appointments) :
        /\ PatientReferenced(appointments[i])
        /\ DoctorReferenced(appointments[i])

\* What the code keeps: the doctor is always referenced (the service reads
\* its row), the patient when the backend enforces foreign keys.
C21_ReferencesWhereEnforced ==
    \A i \in 1..Len(appointments) :
        /\ DoctorReferenced(appointments[i])
        /\ enforce_fk => PatientReferenced(appointments[i])

\* C22: appointments are never updated or deleted: a persisted appointment
\* exists in every later state under the same id with the same patient_id,
\* doctor_id, start, duration_minutes and reason, whatever call follows
\* (schedule calls with their fix-up of the returned object, doctor updates,
\* listings).
C22_NeverUpdatedOrDeleted ==
    [][/\ Len(appointments') >= Len(appointments)
       /\ \A i \in 1..Len(appointments) :
             /\ appointments'[i].patient_id = appointments[i].patient_id
             /\ appointments'[i].doctor_id = appointments[i].doctor_id
             /\ RowStart(appointments'[i]) = RowStart(appointments[i])
             /\ appointments'[i].duration_minutes = appointments[i].duration_minutes
             /\ appointments'[i].reason = appointments[i].reason]_vars

\* Two appointments persisted, and the doctor of the first deactivated by the
\* last call.
C22_Witness ==
    /\ last.op = "update_doctor"
    /\ Len(appointments) = 2
    /\ ~doctors[appointments[1].doctor_id].is_active

\* C23: a schedule request rejected for a scheduling conflict is answered
\* 409; one rejected because the doctor does not exist or is not active is
\* answered 400; no rejection by the service is answered with a success
\* status, and a success status is given only with the appointment persisted.
C23_StatusMapping ==
    [][LET data == last'.data IN
          ScheduleStep(data) =>
              /\ Reported("Doctor has a conflicting appointment at this time")
                    => last'.status = 409
              /\ (Reported("Doctor does not exist") \/ Reported("Doctor is not active"))
                    => last'.status = 400
              /\ last'.detail # <<>> => last'.status >= 400
              /\ last'.status < 400 => Accepted(data)
              /\ last'.id = 0 => last'.status >= 400]_vars

\* A request answered 409 for a conflict with a persisted appointment.
C23_Witness ==
    /\ last.op = "schedule"
    /\ last.status = 409
    /\ last.detail = <<ErrConflict>>
    /\ \E i \in 1..Len(appointments) :
          appointments[i].doctor_id = last.data.doctor_id

----------------------------------------------------------------------------
(* Doctors *)

\* A step that completes a PUT /doctors/{doctor_id} call.
UpdateStep == last'.op = "update_doctor" /\ (last' # last \/ store' # store)

\* Worker thread p takes the step that commits its update of a doctor.
UpdateCommits(p) == calls[p].pc = "loaded" /\ calls'[p] # calls[p]

\* Doctors are never removed, so a doctor keeps its id.
DoctorsKept == Len(doctors') >= Len(doctors)

\* C24 as claimed: is_active is the only field of an existing doctor that
\* any operation changes; full_name and specialization stay as created.
C24_ClaimedOnlyIsActive ==
    [][/\ DoctorsKept
       /\ \A d \in 1..Len(doctors) :
             /\ doctors'[d].full_name = doctors[d].full_name
             /\ doctors'[d].specialization = doctors[d].specialization]_vars

\* C24: full_name, specialization and is_active of an existing doctor are
\* changed by a successful update of that doctor and by nothing else: every
\* other call, and every update of another doctor or of no doctor, leaves
\* all fields of the doctor as they are, and a doctor is never removed, so
\* its id does not change.
C24_MutableByUpdateOnly ==
    [][/\ DoctorsKept
       /\ \A d \in 1..Len(doctors) :
             doctors'[d] # doctors[d]
                 => \E p \in Procs :
                        UpdateCommits(p) /\ calls[p].update.doctor_id = d
       /\ \A p \in Procs :
             (calls[p].update # NoUpdate /\ calls'[p].pc = "idle")
                 => /\ UpdateStep
                    /\ last'.status = 200
                    /\ last'.update = calls[p].update]_vars

\* An update that changed the name and the specialization of a doctor that
\* has an appointment.
C24_Witness ==
    /\ last.op = "update_doctor"
    /\ last.status = 200
    /\ last.update.full_name = "Dr. B"
    /\ last.update.specialization = "Cardiology"
    /\ last.update.doctor_id \in 1..Len(doctors)
    /\ doctors[last.update.doctor_id].full_name = "Dr. B"
    /\ doctors[last.update.doctor_id].specialization = "Cardiology"
    /\ \E i \in 1..Len(appointments) :
          appointments[i].doctor_id = last.update.doctor_id

\* C25: a doctor update sets exactly the fields it supplies (full_name,
\* specialization, is_active) to the supplied values and leaves the fields
\* it does not supply, every other doctor, and all patients and appointments
\* unchanged; an update for an id of no doctor is answered not-found and
\* changes nothing.
C25_UpdateFrame ==
    [][/\ \A p \in Procs :
             UpdateCommits(p) =>
                 LET u == calls[p].update
                     d == u.doctor_id
                 IN  /\ Len(doctors') = Len(doctors)
                     /\ doctors'[d].full_name =
                           IF u.full_name = NONE THEN doctors[d].full_name
                           ELSE u.full_name
                     /\ doctors'[d].specialization =
                           IF u.specialization = NONE
                           THEN doctors[d].specialization
                           ELSE u.specialization
                     /\ doctors'[d].is_active =
                           IF u.is_active = NONE THEN doctors[d].is_active
                           ELSE u.is_active = "true"
                     /\ \A o \in 1..Len(doctors) :
                           o # d => doctors'[o] = doctors[o]
                     /\ patients' = patients
                     /\ appointments' = appointments
       /\ UpdateStep =>
             /\ store' = store
             /\ IF last'.update.doctor_id \in 1..Len(doctors)
                THEN last'.status = 200
                ELSE /\ last'.status = 404
                     /\ last'.detail = <<"Doctor not found">>]_vars

\* What the code keeps when updates of one doctor run together: the commit
\* leaves a field the update does not supply as it is, a field it supplies
\* takes the supplied value or stays as it is, nothing else changes, and the
\* row returned is the row the table holds when the call is answered.
C25_UpdateFrameOfWrittenFields ==
    [][/\ \A p \in Procs :
             UpdateCommits(p) =>
                 LET u == calls[p].update
                     d == u.doctor_id
                 IN  /\ Len(doctors') = Len(doctors)
                     /\ doctors'[d].full_name
                           \in {doctors[d].full_name, u.full_name}
                     /\ doctors'[d].specialization
                           \in {doctors[d].specialization, u.specialization}
                     /\ u.is_active = NONE
                           => doctors'[d].is_active = doctors[d].is_active
                     /\ \A o \in 1..Len(doctors) :
                           o # d => doctors'[o] = doctors[o]
                     /\ patients' = patients
                     /\ appointments' = appointments
       /\ UpdateStep =>
             /\ store' = store
             /\ IF last'.update.doctor_id \in 1..Len(doctors)
                THEN /\ last'.status = 200
                     /\ last'.doctor = doctors[last'.update.doctor_id]
                ELSE last'.status = 404]_vars

----------------------------------------------------------------------------
(* Instants, overlap, the clock *)

\* The start of the appointment returned by, and the start a later scan
\* reads from, the row the call answered by the step persisted.
ReturnedStart == ReturnedAppointment(appointments'[last'.id]).start_datetime
ScannedStart ==
    _ensure_timezone_aware(appointments'[last'.id].start_datetime)

RoundTrip(data) ==
    /\ ReturnedStart.aware
    /\ ReturnedStart.wall - ReturnedStart.off = ReqStart(data)
    /\ ScannedStart.aware
    /\ ScannedStart.wall - ScannedStart.off = ReqStart(data)

\* C26: for every accepted schedule request, the appointment returned by
\* create_appointment, and the same appointment as later conflict scans read
\* it from the store, carries a timezone-aware start that denotes the
\* instant of the requested start, whatever offset the request carried.
C26_SameInstant ==
    [][LET data == last'.data IN
          (ScheduleStep(data) /\ Accepted(data)) => RoundTrip(data)]_vars

\* What the code keeps: the same for requests whose start is given in UTC.
C26_SameInstantForUTCStarts ==
    [][LET data == last'.data IN
          (/\ ScheduleStep(data)
           /\ Accepted(data)
           /\ data.start_datetime.off = 0) => RoundTrip(data)]_vars

\* C27: the overlap test of the conflict scan is symmetric: for two
\* intervals A and B, A as the candidate against B as the existing
\* appointment gives the verdict that B as the candidate against A as the
\* existing appointment gives.
C27_OverlapSymmetric ==
    (calls[1].pc = "done" /\ calls[2].pc = "done")
        => calls[1].detail = calls[2].detail

\* Both verdicts are a conflict, for two different intervals of which one
\* was written at UTC+01:00.
C27_Witness ==
    /\ calls[1].pc = "done"
    /\ calls[2].pc = "done"
    /\ calls[1].detail = <<ErrConflict>>
    /\ ReqStart(calls[1].data) < ReqStart(calls[2].data)
    /\ ReqEnd(calls[1].data) < ReqEnd(calls[2].data)
    /\ calls[1].data.start_datetime.off # calls[2].data.start_datetime.off

\* Both verdicts are no conflict, for two intervals that touch.
C27_WitnessApart ==
    /\ calls[1].pc = "done"
    /\ calls[2].pc = "done"
    /\ calls[1].detail = <<>>
    /\ ReqEnd(calls[1].data) = ReqStart(calls[2].data)

\* Some persisted appointment of the doctor started on a UTC day before the
\* day of the requested start and ends after the requested start.
OverlapsRowOfEarlierDay(data) ==
    \E i \in RowsFound(data.doctor_id) :
        /\ RowStart(appointments[i]) \div 86400 < ReqStart(data) \div 86400
        /\ RowEnd(appointments[i]) > ReqStart(data)

\* C28: the conflict scan is not restricted to the calendar day of the
\* candidate: a request that reaches the scan and overlaps an appointment of
\* its doctor that started on an earlier UTC day and runs past midnight
\* (existing 23:00 for 120 minutes, candidate 00:30 of the next day) is
\* rejected as a conflict and persists nothing.
C28_CrossMidnightConflict ==
    [][LET data == last'.data IN
          (/\ ScheduleStep(data)
           /\ ReachesScan(data)
           /\ OverlapsRowOfEarlierDay(data))
          => /\ last'.detail = <<ErrConflict>>
             /\ last'.status = 409
             /\ Rejected]_vars

\* 23:00 for 120 minutes is persisted and the request for 00:30 of the next
\* day, for the same doctor, is answered with the conflict.
C28_Witness ==
    /\ last.op = "schedule"
    /\ last.status = 409
    /\ last.data.start_datetime = Aware(86400 + 1800, 0)
    /\ Len(appointments) = 1
    /\ appointments[1].doctor_id = last.data.doctor_id
    /\ RowStart(appointments[1]) = 86400 - 3600
    /\ appointments[1].duration_minutes = 120

\* C29: within one schedule request the reference time is sampled once:
\* the schema and create_appointment compare the start with the same clock
\* value, so a request whose start is after the clock value of the
\* validation is not rejected by the time gate, however much time passes
\* during the request.
C29_NowSampledOnce ==
    [][LET data == last'.data IN
          ScheduleStep(data) =>
              /\ (last'.status \in {201, 409} \/ Reported(ErrPast))
                    => last'.t_service = last'.t_schema
              /\ (data.start_datetime.aware /\ ReqStart(data) > last'.t_schema)
                    => ~Reported(ErrFuture) /\ ~Reported(ErrPast)]_vars

\* What the code keeps: the clock value of the service is not earlier than
\* that of the schema, and a start that is not before the clock value of the
\* service passes both time comparisons.
C29_TwoSamples ==
    [][LET data == last'.data IN
          ScheduleStep(data) =>
              /\ last'.t_service >= last'.t_schema
              /\ (/\ data.start_datetime.aware
                  /\ ReqStart(data) > last'.t_schema
                  /\ ReqStart(data) >= last'.t_service)
                    => ~Reported(ErrFuture) /\ ~Reported(ErrPast)]_vars

\* Some persisted row of the patient with another doctor overlaps the
\* requested interval.
PatientBusyElsewhere(data) ==
    \E i \in 1..Len(appointments) :
        /\ appointments[i].patient_id = data.patient_id
        /\ appointments[i].doctor_id # data.doctor_id
        /\ ReqStart(data) < RowEnd(appointments[i])
        /\ RowStart(appointments[i]) < ReqEnd(data)

\* C30: conflict detection is scoped to the doctor. A schedule call that
\* reaches the scan while the patient holds an overlapping appointment with
\* another doctor is answered with the conflict error exactly when a row of
\* the requested doctor overlaps; with no such row (and the insert passing)
\* it is accepted and persisted.
C30_ConflictScopedToDoctor ==
    [][LET data == last'.data IN
          (ScheduleStep(data) /\ ReachesScan(data) /\ PatientBusyElsewhere(data))
             => /\ Reported(ErrConflict) <=> RequestOverlapsRow(data)
                /\ (~RequestOverlapsRow(data) /\ InsertPasses(data))
                      => Accepted(data)]_vars

\* The same patient holds two overlapping appointments with two different
\* active doctors, the second just accepted.
C30_Witness ==
    /\ last.op = "schedule"
    /\ last.status = HTTP_201_CREATED
    /\ Len(appointments) = 2
    /\ appointments[1].patient_id = appointments[2].patient_id
    /\ appointments[1].doctor_id # appointments[2].doctor_id
    /\ RowStart(appointments[1]) < RowEnd(appointments[2])
    /\ RowStart(appointments[2]) < RowEnd(appointments[1])
    /\ \A i \in 1..2 : doctors[appointments[i].doctor_id].is_active
    /\ appointments[2].patient_id \in 1..Len(patients)

====
